---- MODULE Spec2Model ----
(***************************************************************************)
(* Model of explore-zim.py: the chunked, pooled construction of the link   *)
(* graph of a ZIM archive, the lazily cached full graph and its views, the *)
(* search prompt and the grouped listing.                                  *)
(*                                                                         *)
(* Strings are sequences of tokens.  A token is either one punctuation     *)
(* character (".", "/", ":", "#", "?") or a word, a non-empty run of       *)
(* letters.  Words have pairwise distinct first characters, so comparing   *)
(* token sequences lexicographically by TokenRank is Python's string       *)
(* comparison.  Entry identifiers are 0-based as in the code; the entry    *)
(* with identifier e is zim[e + 1].                                        *)
(***************************************************************************)
EXTENDS Integers, Sequences, FiniteSets, TLC

\* ------------------------------------------------------------------------
\* Bounds of the model
\* ------------------------------------------------------------------------
MaxEntries == 3
MaxChunk == 3
MaxAccess == 2
MaxWorkerEntries == 2
MaxAnchors == 2
MaxHits == 2
MaxRounds == 2
MaxListEntries == 4
MaxLinks == 3
\* The window search_start is kept in; nothing reads search_start.
SearchStartWrap == 500

\* ------------------------------------------------------------------------
\* Program constants
\* ------------------------------------------------------------------------
ALL_ARTICLES_GRAPH_CHUNK_SIZE == 500
\* search.getResults(0, 10)
SEARCH_PAGE == 10
\* itertools.islice(..., 10)
SEARCH_LIMIT == 10
search_count == 50

ARTICLES_NODE == <<"_ARTICLES">>
CATEGORIES_NODE == <<"_CATEGORIES">>
SPECIAL_NODES == {ARTICLES_NODE, CATEGORIES_NODE}

\* Python's None where the code handles integers (grouper's fillvalue).
None == -1
\* A missing key of a node's attribute dictionary.
Absent == "<absent>"
NoAttrs == [title |-> Absent, mimetype |-> Absent]

\* ------------------------------------------------------------------------
\* Strings
\* ------------------------------------------------------------------------
Punct == {".", "/", ":", "#", "?"}
IsWord(t) == t \notin Punct

RECURSIVE lstrip(_, _)
\* str.lstrip(chars): drop every leading character that is in chars.
lstrip(s, chars) ==
  IF s # <<>> /\ Head(s) \in chars THEN lstrip(Tail(s), chars) ELSE s

\* str.find: the first position of a character of cs at or after position
\* from, Len(s) + 1 when there is none.
FindFrom(s, cs, from) ==
  LET hits == {i \in from..Len(s) : s[i] \in cs}
  IN  IF hits = {} THEN Len(s) + 1
      ELSE CHOOSE i \in hits : \A j \in hits : i <= j

startswith(s, prefix) ==
  Len(s) >= Len(prefix) /\ SubSeq(s, 1, Len(prefix)) = prefix

\* urllib.parse.urlsplit: scheme, netloc, path, query, fragment.
urlsplit(url) ==
  LET colon == FindFrom(url, {":"}, 1)
      hasScheme ==
        /\ colon <= Len(url)
        /\ colon > 1
        /\ IsWord(url[1])
        /\ \A i \in 1..(colon - 1) : IsWord(url[i]) \/ url[i] = "."
      scheme == IF hasScheme THEN SubSeq(url, 1, colon - 1) ELSE <<>>
      u1 == IF hasScheme THEN SubSeq(url, colon + 1, Len(url)) ELSE url
      hasLoc == Len(u1) >= 2 /\ u1[1] = "/" /\ u1[2] = "/"
      delim == FindFrom(u1, {"/", "?", "#"}, 3)
      netloc == IF hasLoc THEN SubSeq(u1, 3, delim - 1) ELSE <<>>
      u2 == IF hasLoc THEN SubSeq(u1, delim, Len(u1)) ELSE u1
      hash == FindFrom(u2, {"#"}, 1)
      fragment == SubSeq(u2, hash + 1, Len(u2))
      u3 == SubSeq(u2, 1, hash - 1)
      qm == FindFrom(u3, {"?"}, 1)
      query == SubSeq(u3, qm + 1, Len(u3))
      path == SubSeq(u3, 1, qm - 1)
  IN  [scheme |-> scheme, netloc |-> netloc, path |-> path,
       query |-> query, fragment |-> fragment]

\* ------------------------------------------------------------------------
\* Directed graphs (networkx.DiGraph): nodes, per-node attribute
\* dictionaries, edges.  none marks Python's None in place of a graph.
\* ------------------------------------------------------------------------
EmptyGraph == [none |-> FALSE, nodes |-> {}, attrs |-> <<>>, edges |-> {}]
NoGraph == [none |-> TRUE, nodes |-> {}, attrs |-> <<>>, edges |-> {}]

\* bool(graph): None is false, and so is a graph without nodes (__len__).
Truthy(g) == ~g.none /\ g.nodes # {}

\* dict.update: the keys of d2 replace those of d1.
update(d1, d2) ==
  [k \in DOMAIN d1 |-> IF d2[k] # Absent THEN d2[k] ELSE d1[k]]

AttrsOf(g, n) == IF n \in g.nodes THEN g.attrs[n] ELSE NoAttrs

add_node(g, n, a) ==
  [g EXCEPT !.nodes = g.nodes \cup {n},
            !.attrs = [m \in g.nodes \cup {n} |->
                         IF m = n THEN update(AttrsOf(g, n), a)
                         ELSE g.attrs[m]]]

add_edge(g, u, v) ==
  [add_node(add_node(g, u, NoAttrs), v, NoAttrs)
     EXCEPT !.edges = g.edges \cup {<<u, v>>}]

\* A merge in which the attributes of the later graph replace those of the
\* earlier one instead of updating them.
composeReplacing(r, h) ==
  [none |-> FALSE,
   nodes |-> r.nodes \cup h.nodes,
   attrs |-> [n \in r.nodes \cup h.nodes |->
                IF n \in h.nodes THEN h.attrs[n] ELSE r.attrs[n]],
   edges |-> r.edges \cup h.edges]

\* One step of networkx.compose_all: add the nodes (with their attributes)
\* and the edges of h to r.
compose(r, h) ==
  [none |-> FALSE,
   nodes |-> r.nodes \cup h.nodes,
   attrs |-> [n \in r.nodes \cup h.nodes |->
                update(AttrsOf(r, n), AttrsOf(h, n))],
   edges |-> r.edges \cup h.edges]

has_node(g, n) == n \in g.nodes
successors(g, n) == {m \in g.nodes : <<n, m>> \in g.edges}

induced_subgraph(g, ns) ==
  LET keep == g.nodes \cap ns
  IN  [none |-> FALSE,
       nodes |-> keep,
       attrs |-> [n \in keep |-> g.attrs[n]],
       edges |-> {e \in g.edges : e[1] \in keep /\ e[2] \in keep}]

\* ------------------------------------------------------------------------
\* The entry classifier
\* ------------------------------------------------------------------------
\* The href of an anchor without the attribute.
NoHref == <<"<no href>">>

\* The url an anchor's href is turned into.
LinkUrl(href) == lstrip(href, {".", "/"})

\* Whether the anchor adds an edge: not external, and with a path.
LinkAdded(href) ==
  /\ href # NoHref
  /\ urlsplit(LinkUrl(href)).netloc = <<>>
  /\ urlsplit(LinkUrl(href)).path # <<>>

RECURSIVE AddLinks(_, _, _)
AddLinks(graph, path, anchors) ==
  IF anchors = <<>> THEN graph
  ELSE AddLinks(IF LinkAdded(Head(anchors))
                THEN add_edge(graph, path, LinkUrl(Head(anchors)))
                ELSE graph,
                path, Tail(anchors))

IsCategoryPath(path) == startswith(path, <<"Category", ":">>)

add_zim_entry_to_graph(graph, zim, entry) ==
  IF entry.is_redirect
  THEN add_edge(add_node(graph, entry.path,
                         [title |-> entry.title, mimetype |-> Absent]),
                entry.path, zim[entry.redirect + 1].path)
  ELSE IF entry.mimetype # "text/html" THEN graph
  ELSE LET g1 == add_node(graph, entry.path,
                          [title |-> entry.title, mimetype |-> entry.mimetype])
           g2 == add_edge(g1, ARTICLES_NODE, entry.path)
           g3 == IF IsCategoryPath(entry.path)
                 THEN add_edge(g2, CATEGORIES_NODE, entry.path)
                 ELSE g2
       IN  AddLinks(g3, entry.path, entry.anchors)

\* ------------------------------------------------------------------------
\* Chunking and the chunk worker
\* ------------------------------------------------------------------------
\* range(count) as a sequence.
range(count) == [i \in 1..count |-> i - 1]

\* grouper(iterable, n, incomplete='fill', fillvalue=None)
grouper(iterable, n) ==
  LET count == (Len(iterable) + n - 1) \div n
  IN  [k \in 1..count |->
         [j \in 1..n |->
            IF (k - 1) * n + j <= Len(iterable)
            THEN iterable[(k - 1) * n + j]
            ELSE None]]

\* A filter by truth value, which drops identifier 0 with the placeholders.
KeepIdTruthy(x) == x # None /\ x # 0

\* The worker's filter: lambda x: x is not None.
KeepId(x) == x # None

\* The identifiers of a chunk that reach the classifier, in order.
FilterIds(entry_ids) == SelectSeq(entry_ids, KeepId)

SentinelGraph == add_node(add_node(EmptyGraph, ARTICLES_NODE, NoAttrs),
                          CATEGORIES_NODE, NoAttrs)

RECURSIVE ClassifyAll(_, _, _)
ClassifyAll(graph, zim, ids) ==
  IF ids = <<>> THEN graph
  ELSE ClassifyAll(add_zim_entry_to_graph(graph, zim, zim[Head(ids) + 1]),
                   zim, Tail(ids))

zim_entries_to_graph(zim, entry_ids) ==
  ClassifyAll(SentinelGraph, zim, FilterIds(entry_ids))

\* imap_unordered over the groups, nx.compose_all over what it yields, with
\* the graphs arriving in the order order (a sequence of group numbers).
RECURSIVE compose_all(_, _, _, _)
compose_all(r, zim, groups_, order) ==
  IF order = <<>> THEN r
  ELSE compose_all(compose(r, zim_entries_to_graph(zim, groups_[Head(order)])),
                   zim, groups_, Tail(order))

\* ------------------------------------------------------------------------
\* Graph views
\* ------------------------------------------------------------------------
\* nx.descendants_at_distance for the distances the code asks for.
descendants_at_distance(g, source, distance) ==
  LET d1 == successors(g, source) \ {source}
      d2 == UNION {successors(g, n) : n \in d1} \ (d1 \cup {source})
  IN  IF distance = 1 THEN d1 ELSE d2

categories_graph(g) ==
  induced_subgraph(g, descendants_at_distance(g, CATEGORIES_NODE, 1))

all_articles_graph(g) ==
  induced_subgraph(g, descendants_at_distance(g, ARTICLES_NODE, 1))

category_articles_graph(g) ==
  induced_subgraph(g, descendants_at_distance(g, CATEGORIES_NODE, 1)
                        \cup descendants_at_distance(g, CATEGORIES_NODE, 2))

search_graph(g, exclude) ==
  IF exclude THEN category_articles_graph(g) ELSE all_articles_graph(g)

Views == {"full_graph", "categories_graph", "all_articles_graph",
          "category_articles_graph", "search_graph"}

ViewOf(v, g, exclude) ==
  CASE v = "full_graph" -> g
    [] v = "categories_graph" -> categories_graph(g)
    [] v = "all_articles_graph" -> all_articles_graph(g)
    [] v = "category_articles_graph" -> category_articles_graph(g)
    [] v = "search_graph" -> search_graph(g, exclude)

\* ------------------------------------------------------------------------
\* A whole build, for the commands that only use its result
\* ------------------------------------------------------------------------
\* __build_zim_graph with the pool yielding the graphs in submission order.
build_zim_graph(zim_) ==
  LET groups_ == grouper(range(Len(zim_)), ALL_ARTICLES_GRAPH_CHUNK_SIZE)
  IN  compose_all(NoGraph, zim_, groups_, [k \in 1..Len(groups_) |-> k])

\* follow_zim_redirects, on entry identifiers.
RECURSIVE follow_zim_redirects(_, _)
follow_zim_redirects(zim_, e) ==
  IF zim_[e + 1].is_redirect
  THEN follow_zim_redirects(zim_, zim_[e + 1].redirect)
  ELSE e

\* ------------------------------------------------------------------------
\* Order of strings, sorted()
\* ------------------------------------------------------------------------
\* The tokens in the order of their first characters.
TokenOrder == <<"#", ".", "/", ":", "?", "A", "B", "Category", "D", "E", "R",
                "S", "_ARTICLES", "_CATEGORIES", "f", "http", "q", "x">>

TokenRank(t) == CHOOSE i \in 1..Len(TokenOrder) : TokenOrder[i] = t

RECURSIVE StrLess(_, _)
\* a < b for strings.
StrLess(a, b) ==
  IF b = <<>> THEN FALSE
  ELSE IF a = <<>> THEN TRUE
  ELSE IF Head(a) = Head(b) THEN StrLess(Tail(a), Tail(b))
  ELSE TokenRank(Head(a)) < TokenRank(Head(b))

RECURSIVE sorted(_)
\* sorted(set of strings), as a sequence.
sorted(set) ==
  IF set = {} THEN <<>>
  ELSE LET least == CHOOSE a \in set : \A b \in set \ {a} : StrLess(a, b)
       IN  <<least>> \o sorted(set \ {least})

Range(s) == {s[i] : i \in 1..Len(s)}

\* ------------------------------------------------------------------------
\* Traversals
\* ------------------------------------------------------------------------
RECURSIVE Reach(_, _, _)
Reach(g, frontier, seen) ==
  LET more == UNION {successors(g, n) : n \in frontier} \ seen
  IN  IF more = {} THEN seen ELSE Reach(g, more, seen \cup more)

\* nx.descendants: the nodes reachable from source, without source.
descendants(g, source) == Reach(g, {source}, {source}) \ {source}

RECURSIVE BfsLoop(_, _, _, _)
\* The breadth-first loop of nx.bfs_edges, its edges grouped by parent as
\* nx.bfs_successors groups them: a parent is listed when it discovers a node.
BfsLoop(g, queue, visited, out) ==
  IF queue = <<>> THEN out
  ELSE LET parent == Head(queue)
           children == sorted(successors(g, parent) \ visited)
       IN  BfsLoop(g, Tail(queue) \o children, visited \cup Range(children),
                   IF children = <<>> THEN out
                   ELSE Append(out, [node |-> parent,
                                     successors_list |-> children]))

\* nx.bfs_successors(g, source, sort_neighbors=sorted): with no edge to
\* follow, its last yield is the source with an empty list.
bfs_successors(g, source) ==
  LET out == BfsLoop(g, <<source>>, {source}, <<>>)
  IN  IF out = <<>> THEN <<[node |-> source, successors_list |-> <<>>]>>
      ELSE out

RECURSIVE PathsOfLength(_, _, _, _)
\* The walks of k edges from source to target.
PathsOfLength(g, source, target, k) ==
  IF k = 0 THEN (IF source = target THEN {<<source>>} ELSE {})
  ELSE UNION { {<<source>> \o p : p \in PathsOfLength(g, m, target, k - 1)} :
               m \in successors(g, source) }

\* nx.shortest_path(g, source, target): the paths of the least number of
\* edges, one of which it returns; none when target cannot be reached.
ShortestPaths(g, source, target) ==
  LET lengths == {k \in 0..Cardinality(g.nodes) :
                    PathsOfLength(g, source, target, k) # {}}
  IN  IF lengths = {} THEN {}
      ELSE PathsOfLength(g, source, target,
                         CHOOSE k \in lengths : \A l \in lengths : k <= l)

\* ------------------------------------------------------------------------
\* Formatting
\* ------------------------------------------------------------------------
SEPARATOR == " / "

\* __format_article_link: the identifier, and the title in brackets when the
\* node has one.
format_article_link(g, node_id) ==
  LET node_title == AttrsOf(g, node_id).title
  IN  IF node_title # Absent /\ node_title # ""
      THEN node_id \o <<" ", "(", node_title, ")">>
      ELSE node_id

RECURSIVE join(_, _)
\* separator.join(parts)
join(separator, parts) ==
  IF parts = <<>> THEN <<>>
  ELSE IF Len(parts) = 1 THEN parts[1]
  ELSE parts[1] \o <<separator>> \o join(separator, Tail(parts))

\* Breadcrumbs in which every element is formatted as a link.
format_category_breadcrumbs_links(g, breadcrumbs) ==
  join(SEPARATOR,
       [i \in 1..Len(breadcrumbs) |-> format_article_link(g, breadcrumbs[i])])

\* __format_category_breadcrumbs
format_category_breadcrumbs(g, breadcrumbs) ==
  join(SEPARATOR,
       Append(SubSeq(breadcrumbs, 1, Len(breadcrumbs) - 1),
              format_article_link(g, breadcrumbs[Len(breadcrumbs)])))

\* ------------------------------------------------------------------------
\* Archives
\* ------------------------------------------------------------------------
\* Paths and titles of the entries, by identifier.
PathPool == << <<"Category", ":", "R">>, <<"A">>, <<"Category", ":", "S">>,
               <<"Category", ":", "D">>, <<"B">>, <<"E">> >>
TitlePool == <<"tR", "tA", "tS", "tD", "tB", "tE">>

PathOf(e) == PathPool[e + 1]

Other(e) ==
  [path |-> PathOf(e), title |-> TitlePool[e + 1], is_redirect |-> FALSE,
   redirect |-> 0, mimetype |-> "image/png", anchors |-> <<>>]

Redirect(e, target) ==
  [path |-> PathOf(e), title |-> TitlePool[e + 1], is_redirect |-> TRUE,
   redirect |-> target, mimetype |-> "", anchors |-> <<>>]

HtmlEntry(e, anchors) ==
  [path |-> PathOf(e), title |-> TitlePool[e + 1], is_redirect |-> FALSE,
   redirect |-> 0, mimetype |-> "text/html", anchors |-> anchors]

\* Entries of the archives a build is followed on: an HTML page without
\* links, with a link to the next entry, with a relative link to itself, a
\* picture, a redirect to the next entry.
BuildEntries(e, count) ==
  LET next == (e + 1) % count
  IN  { HtmlEntry(e, <<>>), HtmlEntry(e, <<PathOf(next)>>),
        HtmlEntry(e, <<<<".", "/">> \o PathOf(e)>>), Other(e) }
      \cup IF count > 1 THEN {Redirect(e, next)} ELSE {}

\* The hrefs of the archives the classifier is followed on: to the entry
\* itself and to the next entry, relative, with a scheme, protocol-relative,
\* with a fragment, fragment-only, query-only; and an anchor without href.
HrefsOf(e, count) ==
  LET self == PathOf(e)
      next == PathOf((e + 1) % count)
  IN  { self, <<".", "/">> \o self, next, <<".", ".", "/">> \o next,
        <<"http", ":", "/", "/", "x", "/">> \o next,
        <<"/", "/", "x", "/">> \o next,
        next \o <<"#", "f">>, <<"#", "f">>, <<"?", "q">>, NoHref }

AnchorsOf(e, count) ==
  UNION { [1..len -> HrefsOf(e, count)] : len \in 0..MaxAnchors }

WorkerEntries(e, count) ==
  { HtmlEntry(e, a) : a \in AnchorsOf(e, count) }
  \cup { Other(e) }
  \cup IF count > 1 THEN {Redirect(e, (e + 1) % count)} ELSE {}

\* The archives of count entries for a build (rich is false) and for the
\* classifier (rich is true).
ArchivesOf(count, rich) ==
  LET entries(e) == IF rich THEN WorkerEntries(e, count)
                    ELSE BuildEntries(e, count)
      upto[k \in 0..count] ==
        IF k = 0 THEN {<<>>}
        ELSE {Append(z, x) : z \in upto[k - 1], x \in entries(k - 1)}
  IN  upto[count]

\* The sizes a build's groups are given: below, at and above the entry count.
ChunkSizes == 1..MaxChunk

\* ------------------------------------------------------------------------
\* State
\* ------------------------------------------------------------------------
VARIABLES
  zim,              \* the archive: its entries, by identifier
  chunk_size,       \* the n handed to grouper
  exclude_related,  \* the -x flag
  main_entry,       \* the identifier of the archive's main entry
  pc,               \* where the session is
  error,            \* the exception that ended it, "" while it runs
  full_graph,       \* ZimExplorerContext.__full_graph
  groups,           \* all_entry_id_groups of the running build
  pending,          \* the groups whose graph the pool has not yielded yet
  acc,              \* the graph being filled: compose_all's R, a worker's graph
  classified,       \* how often each identifier was handed to the classifier
  builds,           \* calls of __build_zim_graph so far
  accesses,         \* property reads so far
  caller,           \* the property being read
  returned,         \* the graph the last property read returned
  cursor,           \* a worker's position in its identifiers
  input_str,        \* what the user entered at the prompt
  hits,             \* what the search facility holds for input_str
  search_start,     \* __zim_search_iter's offset
  candidates,       \* search_article_ids_list, as far as it is filled
  shown,            \* what the last prompt reported
  rounds,           \* prompts answered so far
  bfs_rest,         \* the (node, successors) pairs the listing has yet to see
  output            \* the groups the listing has emitted

inputVars == <<zim, chunk_size, exclude_related, main_entry>>
buildVars == <<groups, pending, acc, classified, builds, accesses, caller,
               returned>>
searchVars == <<input_str, hits, search_start, candidates, shown, rounds>>
listVars == <<bfs_rest, output>>

vars == <<inputVars, pc, error, full_graph, buildVars, cursor, searchVars,
          listVars>>

all_entry_count == Len(zim)

\* The parts of the state an operation has not touched yet.
BuildIdle ==
  /\ groups = <<>>
  /\ pending = {}
  /\ acc = NoGraph
  /\ classified = [x \in {None} |-> 0]
  /\ builds = 0
  /\ accesses = 0
  /\ caller = "full_graph"
  /\ returned = NoGraph

SearchIdle ==
  /\ input_str = <<>>
  /\ hits = <<>>
  /\ search_start = 0
  /\ candidates = <<>>
  /\ shown = [kind |-> "nothing", ids |-> <<>>]
  /\ rounds = 0

ListIdle ==
  /\ bfs_rest = <<>>
  /\ output = <<>>

\* ------------------------------------------------------------------------
\* The build: reads of the graph properties, the pool, the merge
\* ------------------------------------------------------------------------
Init ==
  /\ \E count \in 0..MaxEntries : zim \in ArchivesOf(count, FALSE)
  /\ chunk_size \in ChunkSizes
  /\ exclude_related \in BOOLEAN
  /\ main_entry = 0
  /\ pc = "idle"
  /\ error = ""
  /\ full_graph = NoGraph
  /\ cursor = 0
  /\ BuildIdle /\ SearchIdle /\ ListIdle

\* A property that forgets to keep what it built.
StoreGraphDropped(old, built) == old

\* full_graph: self.__full_graph = self.__build_zim_graph(self.zim)
StoreGraph(old, built) == built

\* A read of a graph property when __full_graph is set: no build.
AccessCached(v) ==
  /\ pc = "idle"
  /\ accesses < MaxAccess
  /\ Truthy(full_graph)
  /\ caller' = v
  /\ returned' = ViewOf(v, full_graph, exclude_related)
  /\ accesses' = accesses + 1
  /\ UNCHANGED <<inputVars, pc, error, full_graph, groups, pending, acc,
                 classified, builds, cursor, searchVars, listVars>>

\* A read of a graph property when __full_graph is not set:
\* __build_zim_graph groups the identifiers and hands the groups to the pool.
AccessBuild(v) ==
  /\ pc = "idle"
  /\ accesses < MaxAccess
  /\ ~Truthy(full_graph)
  /\ caller' = v
  /\ pc' = "build"
  /\ builds' = builds + 1
  /\ groups' = grouper(range(all_entry_count), chunk_size)
  /\ pending' = 1..Len(groups')
  /\ acc' = NoGraph
  /\ classified' = [x \in (0..(all_entry_count - 1)) \cup {None} |-> 0]
  /\ UNCHANGED <<inputVars, error, full_graph, accesses, returned, cursor,
                 searchVars, listVars>>

\* How often x occurs in the sequence s.
Count(s, x) == Cardinality({i \in 1..Len(s) : s[i] = x})

\* A worker finishes group k; the pool yields its graph and compose_all
\* adds it to R.
Deliver(k) ==
  /\ pc = "build"
  /\ k \in pending
  /\ pending' = pending \ {k}
  /\ acc' = compose(acc, zim_entries_to_graph(zim, groups[k]))
  /\ classified' = [x \in DOMAIN classified |->
                      classified[x] + Count(FilterIds(groups[k]), x)]
  /\ UNCHANGED <<inputVars, pc, error, full_graph, groups, builds, accesses,
                 caller, returned, cursor, searchVars, listVars>>

\* The pool is exhausted: compose_all returns R, or raises ValueError when
\* it was given no graph; the property stores and returns the graph.
BuildReturn ==
  /\ pc = "build"
  /\ pending = {}
  /\ IF acc.none
     THEN /\ pc' = "error"
          /\ error' = "ValueError"
          /\ UNCHANGED <<full_graph, returned, accesses>>
     ELSE /\ pc' = "idle"
          /\ full_graph' = StoreGraph(full_graph, acc)
          /\ returned' = ViewOf(caller, acc, exclude_related)
          /\ accesses' = accesses + 1
          /\ UNCHANGED error
  /\ UNCHANGED <<inputVars, groups, pending, acc, classified, builds, caller,
                 cursor, searchVars, listVars>>

Next ==
  \/ \E v \in Views : AccessCached(v)
  \/ \E v \in Views : AccessBuild(v)
  \/ \E k \in pending : Deliver(k)
  \/ BuildReturn

Spec == Init /\ [][Next]_vars

\* ------------------------------------------------------------------------
\* One worker, entry by entry: the build of an archive that fits one group
\* ------------------------------------------------------------------------
WorkerInit ==
  /\ \E count \in 1..MaxWorkerEntries : zim \in ArchivesOf(count, TRUE)
  /\ chunk_size = ALL_ARTICLES_GRAPH_CHUNK_SIZE
  /\ exclude_related = FALSE
  /\ main_entry = 0
  /\ pc = "worker"
  /\ error = ""
  /\ full_graph = NoGraph
  /\ cursor = 0
  /\ groups = <<>>
  /\ pending = {1}
  /\ acc = SentinelGraph
  /\ classified = [x \in {None} |-> 0]
  /\ builds = 1
  /\ accesses = 0
  /\ caller = "full_graph"
  /\ returned = NoGraph
  /\ SearchIdle /\ ListIdle

\* The identifiers the worker is left with: the one group of the archive,
\* without its placeholders.
WorkerIds == FilterIds(grouper(range(all_entry_count), chunk_size)[1])

\* One turn of the loop of zim_entries_to_graph.
ClassifyEntry ==
  /\ pc = "worker"
  /\ cursor < Len(WorkerIds)
  /\ acc' = add_zim_entry_to_graph(acc, zim, zim[WorkerIds[cursor + 1] + 1])
  /\ cursor' = cursor + 1
  /\ UNCHANGED <<inputVars, pc, error, full_graph, groups, pending,
                 classified, builds, accesses, caller, returned, searchVars,
                 listVars>>

\* The worker returns its graph, the only one compose_all is given.
WorkerReturn ==
  /\ pc = "worker"
  /\ cursor = Len(WorkerIds)
  /\ pending' = {}
  /\ full_graph' = StoreGraph(full_graph, compose(NoGraph, acc))
  /\ returned' = full_graph'
  /\ accesses' = accesses + 1
  /\ pc' = "idle"
  /\ UNCHANGED <<inputVars, error, groups, acc, classified, builds, caller,
                 cursor, searchVars, listVars>>

WorkerNext == ClassifyEntry \/ WorkerReturn

WorkerSpec == WorkerInit /\ [][WorkerNext]_vars

\* ------------------------------------------------------------------------
\* The explore command: the prompt and the search
\* ------------------------------------------------------------------------
Min(a, b) == IF a <= b THEN a ELSE b

\* What a prompt can be answered with: an entry's path, or other text.
Queries == {PathOf(e) : e \in 0..(all_entry_count - 1)} \cup {<<"q">>}

\* What the search facility can hold for a query: entries of the archive,
\* each at most once, in the facility's order.
HitLists ==
  LET paths == {PathOf(e) : e \in 0..(all_entry_count - 1)}
  IN  {h \in UNION {[1..len -> paths] : len \in 0..MaxHits} :
         \A i, j \in 1..Len(h) : i # j => h[i] # h[j]}

SearchInit ==
  /\ \E count \in 1..MaxEntries : zim \in ArchivesOf(count, FALSE)
  /\ chunk_size = ALL_ARTICLES_GRAPH_CHUNK_SIZE
  /\ exclude_related \in BOOLEAN
  /\ main_entry = 0
  /\ pc = "idle"
  /\ error = ""
  /\ full_graph = NoGraph
  /\ cursor = 0
  /\ BuildIdle /\ ListIdle
  /\ input_str = <<>>
  /\ hits = <<>>
  /\ search_start = 0
  /\ candidates = <<>>
  /\ shown = [kind |-> "nothing", ids |-> <<>>]
  /\ rounds = 0

\* The full_graph property, with the build as one step.
FullGraphRead ==
  IF Truthy(full_graph) THEN full_graph
  ELSE StoreGraph(full_graph, build_zim_graph(zim))

\* One turn of explore_command up to the search: the counts are shown (the
\* first read builds the graph), the user enters q, and an identifier of the
\* search view is returned and its details are shown.
Prompt(q, h) ==
  /\ pc = "idle"
  /\ rounds < MaxRounds
  /\ full_graph' = FullGraphRead
  /\ builds' = IF Truthy(full_graph) THEN builds ELSE builds + 1
  /\ input_str' = q
  /\ hits' = h
  /\ candidates' = <<>>
  /\ search_start' = 0
  /\ IF has_node(search_graph(full_graph', exclude_related), q)
     THEN /\ shown' = [kind |-> "details", ids |-> <<q>>]
          /\ rounds' = rounds + 1
          /\ pc' = "idle"
     ELSE /\ pc' = "search"
          /\ UNCHANGED <<shown, rounds>>
  /\ UNCHANGED <<inputVars, error, groups, pending, acc, classified,
                 accesses, caller, returned, cursor, listVars>>

\* One turn of the loop of __zim_search_iter, with what prompt_for_article_id
\* takes of the page: the first page of the hits is fetched; an empty page
\* ends the iteration; otherwise the hits of the page that are nodes of the
\* search view are taken until the list holds SEARCH_LIMIT of them, and the
\* loop goes on when it does not.
SearchPage ==
  /\ pc = "search"
  /\ LET view == search_graph(full_graph, exclude_related)
         InView(x) == has_node(view, x)
         search_results == SubSeq(hits, 1, Min(SEARCH_PAGE, Len(hits)))
         found == SelectSeq(search_results, InView)
         list == candidates
                   \o SubSeq(found, 1,
                             Min(SEARCH_LIMIT - Len(candidates), Len(found)))
     IN  IF search_results = <<>> \/ Len(list) = SEARCH_LIMIT
         THEN /\ candidates' = list
              /\ shown' = [kind |-> "results", ids |-> list]
              /\ rounds' = rounds + 1
              /\ pc' = "idle"
              /\ UNCHANGED search_start
         ELSE /\ candidates' = list
              /\ search_start' = (search_start + search_count) % SearchStartWrap
              /\ UNCHANGED <<shown, rounds, pc>>
  /\ UNCHANGED <<inputVars, error, full_graph, buildVars, cursor, input_str,
                 hits, listVars>>

SearchNext ==
  \/ \E q \in Queries : \E h \in HitLists : Prompt(q, h)
  \/ SearchPage

SearchSpec == SearchInit /\ [][SearchNext]_vars

\* The search runs on while it can: the loop of __zim_search_iter is not
\* interrupted.
FairSearchSpec == SearchSpec /\ WF_vars(SearchPage)

\* ------------------------------------------------------------------------
\* The list command
\* ------------------------------------------------------------------------
RECURSIVE SubsetsUpTo(_, _)
\* The subsets of set of at most k elements.
SubsetsUpTo(set, k) ==
  IF k = 0 THEN {{}}
  ELSE LET smaller == SubsetsUpTo(set, k - 1)
       IN  smaller \cup {s \cup {x} : s \in smaller, x \in set}

RECURSIVE Ascending(_)
Ascending(ints) ==
  IF ints = {} THEN <<>>
  ELSE LET least == CHOOSE a \in ints : \A b \in ints : a <= b
       IN  <<least>> \o Ascending(ints \ {least})

\* The archive of count HTML entries whose links are links, a set of
\* (source, target) pairs of identifiers.
ListArchive(count, links) ==
  [i \in 1..count |->
     LET targets == Ascending({l[2] : l \in {m \in links : m[1] = i - 1}})
     IN  HtmlEntry(i - 1, [j \in 1..Len(targets) |-> PathOf(targets[j])])]

ListArchives(count) ==
  LET ids == 0..(count - 1)
  IN  {ListArchive(count, links) :
         links \in SubsetsUpTo({l \in ids \X ids : l[1] # l[2]}, MaxLinks)}

ListInit ==
  /\ \E count \in 1..MaxListEntries :
       /\ zim \in ListArchives(count)
       /\ main_entry \in 0..(count - 1)
  /\ chunk_size = ALL_ARTICLES_GRAPH_CHUNK_SIZE
  /\ exclude_related \in BOOLEAN
  /\ pc = "idle"
  /\ error = ""
  /\ full_graph = NoGraph
  /\ cursor = 0
  /\ BuildIdle /\ ListIdle
  /\ input_str = <<>>
  /\ hits = <<>>
  /\ search_start = 0
  /\ candidates = <<>>
  /\ shown = [kind |-> "nothing", ids |-> <<>>]
  /\ rounds = 0

\* The main_node_id property.
main_node_id == PathOf(follow_zim_redirects(zim, main_entry))

\* main_node_categories_graph of format_nodes_list
MainNodeGraph(g) ==
  LET view == search_graph(g, exclude_related)
  IN  induced_subgraph(view, {main_node_id}
                               \cup descendants(view, main_node_id))

\* list_command up to the loop of format_nodes_list: the graph is built, the
\* part of the search view under the main node is cut out (nx.descendants
\* raises NetworkXError when the main node is not in the view) and the
\* traversal is set up.
ListStart ==
  /\ pc = "idle"
  /\ ~Truthy(full_graph)
  /\ full_graph' = FullGraphRead
  /\ builds' = builds + 1
  /\ IF has_node(search_graph(full_graph', exclude_related), main_node_id)
     THEN /\ bfs_rest' = bfs_successors(MainNodeGraph(full_graph'),
                                        main_node_id)
          /\ pc' = "list"
          /\ UNCHANGED error
     ELSE /\ pc' = "error"
          /\ error' = "NetworkXError"
          /\ UNCHANGED bfs_rest
  /\ UNCHANGED <<inputVars, groups, pending, acc, classified, accesses,
                 caller, returned, cursor, searchVars, output>>

\* One turn of the loop of format_nodes_list: for a node of the categories
\* graph the breadcrumbs are looked up (nx.shortest_path raises NodeNotFound
\* when the main node is not in the categories graph, NetworkXNoPath when
\* there is no path) and the heading and the successors are emitted.
ListGroup ==
  /\ pc = "list"
  /\ bfs_rest # <<>>
  /\ LET node == Head(bfs_rest).node
         successors_list == Head(bfs_rest).successors_list
         cats == categories_graph(full_graph)
     IN  IF ~has_node(cats, node)
         THEN /\ bfs_rest' = Tail(bfs_rest)
              /\ UNCHANGED <<pc, error, output>>
         ELSE IF ~has_node(cats, main_node_id)
         THEN /\ pc' = "error"
              /\ error' = "NodeNotFound"
              /\ UNCHANGED <<bfs_rest, output>>
         ELSE IF ShortestPaths(cats, main_node_id, node) = {}
         THEN /\ pc' = "error"
              /\ error' = "NetworkXNoPath"
              /\ UNCHANGED <<bfs_rest, output>>
         ELSE /\ \E breadcrumbs \in ShortestPaths(cats, main_node_id, node) :
                   output' = Append(output,
                     [kind |-> "category",
                      node |-> node,
                      heading |-> format_category_breadcrumbs(full_graph,
                                                              breadcrumbs),
                      entries |-> successors_list,
                      lines |-> [i \in 1..Len(successors_list) |->
                                   format_article_link(full_graph,
                                                       successors_list[i])]])
              /\ bfs_rest' = Tail(bfs_rest)
              /\ UNCHANGED <<pc, error>>
  /\ UNCHANGED <<inputVars, full_graph, buildVars, cursor, searchVars>>

\* The end of format_nodes_list: the nodes of the search view that are not
\* under the main node, sorted.
ListUncategorized ==
  /\ pc = "list"
  /\ bfs_rest = <<>>
  /\ LET uncategorized_nodes_list ==
           sorted(search_graph(full_graph, exclude_related).nodes
                    \ MainNodeGraph(full_graph).nodes)
     IN  output' = Append(output,
           [kind |-> "uncategorized",
            node |-> <<>>,
            heading |-> <<"Uncategorized articles">>,
            entries |-> uncategorized_nodes_list,
            lines |-> [i \in 1..Len(uncategorized_nodes_list) |->
                         format_article_link(full_graph,
                                             uncategorized_nodes_list[i])]])
  /\ pc' = "done"
  /\ UNCHANGED <<inputVars, error, full_graph, buildVars, cursor, searchVars,
                 bfs_rest>>

ListNext == ListStart \/ ListGroup \/ ListUncategorized

ListSpec == ListInit /\ [][ListNext]_vars

\* ------------------------------------------------------------------------
\* Properties of the classifier
\* ------------------------------------------------------------------------
HtmlIds == {e \in 0..(all_entry_count - 1) :
              ~zim[e + 1].is_redirect /\ zim[e + 1].mimetype = "text/html"}

\* C2: the full graph has no edge from a node to itself.
C2_NoSelfEdges ==
  Truthy(full_graph) => \A edge \in full_graph.edges : edge[1] # edge[2]

\* The href as written has a network-location component.
External(href) == href # NoHref /\ urlsplit(href).netloc # <<>>

\* C3: an anchor whose href, as written, points to another origin adds no
\* edge: the edge from the entry to the url made of it is in the graph only
\* if another anchor of the entry, not external, makes the same url.
C3_NoExternalEdges ==
  Truthy(full_graph) =>
    \A e \in HtmlIds : \A i \in 1..Len(zim[e + 1].anchors) :
      LET href == zim[e + 1].anchors[i]
      IN  (External(href)
             /\ <<PathOf(e), LinkUrl(href)>> \in full_graph.edges)
            => \E j \in 1..Len(zim[e + 1].anchors) :
                 /\ ~External(zim[e + 1].anchors[j])
                 /\ LinkAdded(zim[e + 1].anchors[j])
                 /\ LinkUrl(zim[e + 1].anchors[j]) = LinkUrl(href)

\* ------------------------------------------------------------------------
\* Properties of the prompt
\* ------------------------------------------------------------------------
\* C4: a prompt whose query is not a node of the search view comes to an
\* end: the search it starts returns control to the interactive loop.
C4_PromptTerminates == (pc = "search") ~> (pc = "idle")

\* The hits that are nodes of the search view, in the order of the hits.
HitsInView ==
  LET view == search_graph(full_graph, exclude_related)
      InView(x) == has_node(view, x)
  IN  SelectSeq(hits, InView)

\* C5: the candidate list reported for a query that is no node of the view
\* is the hits that are nodes of the view, in the order of the hits, cut to
\* the first SEARCH_LIMIT.
C5_CandidatesAreFilteredHits ==
  (pc = "idle" /\ shown.kind = "results")
    => shown.ids = SubSeq(HitsInView, 1, Min(SEARCH_LIMIT, Len(HitsInView)))

\* ------------------------------------------------------------------------
\* Properties of the listing
\* ------------------------------------------------------------------------
\* The nodes the traversal visits: the main node and what it reaches in the
\* search view.
Visited == MainNodeGraph(full_graph).nodes

\* The successors of a node in the traversal: the nodes it discovers.
TraversalSuccessors(n) ==
  LET pairs == bfs_successors(MainNodeGraph(full_graph), main_node_id)
      at == {i \in 1..Len(pairs) : pairs[i].node = n}
  IN  IF at = {} THEN <<>> ELSE pairs[CHOOSE i \in at : TRUE].successors_list

\* C6: deriving the breadcrumbs never fails, and the finished listing holds,
\* for every visited node of the categories graph, a group headed by that
\* node that lists its successors in the traversal.
C6_VisitedCategoriesHaveGroups ==
  /\ error \notin {"NodeNotFound", "NetworkXNoPath"}
  /\ pc = "done" =>
       \A n \in Visited \cap categories_graph(full_graph).nodes :
         \E i \in 1..Len(output) :
           /\ output[i].kind = "category"
           /\ output[i].node = n
           /\ output[i].entries = TraversalSuccessors(n)

\* How often n is listed as an entry of a group of the output.
TimesListed(n) ==
  Cardinality({p \in (1..Len(output)) \X (1..(MaxListEntries + 1)) :
                 /\ p[2] <= Len(output[p[1]].entries)
                 /\ output[p[1]].entries[p[2]] = n})

\* C10: in the finished listing every node of the search view but the main
\* node is an entry of exactly one group.
C10_ListedExactlyOnce ==
  pc = "done" =>
    \A n \in search_graph(full_graph, exclude_related).nodes \ {main_node_id} :
      TimesListed(n) = 1

RECURSIVE split(_, _)
\* str.split(separator), the inverse of join.
split(s, separator) ==
  LET at == FindFrom(s, {separator}, 1)
  IN  IF at > Len(s) THEN <<s>>
      ELSE <<SubSeq(s, 1, at - 1)>>
             \o split(SubSeq(s, at + 1, Len(s)), separator)

\* The node is two category-hops from the main node in the categories graph.
TwoHops(n) ==
  LET cats == categories_graph(full_graph)
  IN  /\ has_node(cats, main_node_id)
      /\ n \notin {main_node_id} \cup successors(cats, main_node_id)
      /\ \E m \in successors(cats, main_node_id) : n \in successors(cats, m)

TitleSuffix(n) == <<" ", "(", AttrsOf(full_graph, n).title, ")">>

\* C8 as stated: the heading of a category two category-hops from the main
\* node has exactly two segments, the last with the title suffix.
C8_TwoSegments ==
  \A i \in 1..Len(output) :
    (output[i].kind = "category" /\ TwoHops(output[i].node))
      => LET segments == split(output[i].heading, SEPARATOR)
         IN  /\ Len(segments) = 2
             /\ segments[2] = output[i].node \o TitleSuffix(output[i].node)

\* C8 as the code has it: the heading has three segments, the main node and
\* a category between, both as plain identifiers, then the node with its
\* title suffix.
C8_ThreeSegments ==
  \A i \in 1..Len(output) :
    (output[i].kind = "category" /\ TwoHops(output[i].node))
      => LET segments == split(output[i].heading, SEPARATOR)
             cats == categories_graph(full_graph)
         IN  /\ Len(segments) = 3
             /\ segments[1] = main_node_id
             /\ segments[2] \in successors(cats, main_node_id)
             /\ output[i].node \in successors(cats, segments[2])
             /\ segments[3] = output[i].node \o TitleSuffix(output[i].node)

\* The listing has emitted the group of a category two hops from the main
\* node.
C8_Witness ==
  \E i \in 1..Len(output) :
    /\ output[i].kind = "category"
    /\ TwoHops(output[i].node)
    /\ AttrsOf(full_graph, output[i].node).title # Absent

\* ------------------------------------------------------------------------
\* Properties of the build
\* ------------------------------------------------------------------------
\* add_zim_entry_to_graph applied to entries 0..N-1 in turn, on one
\* accumulator that holds the two sentinel nodes.
Sequential == ClassifyAll(SentinelGraph, zim, range(all_entry_count))

SameGraph(g, h) ==
  /\ ~g.none /\ ~h.none
  /\ g.nodes = h.nodes
  /\ \A n \in g.nodes : g.attrs[n] = h.attrs[n]
  /\ g.edges = h.edges

\* C1 as stated: for every entry count, chunk size and delivery order, once
\* the pool has yielded every partial graph the merged graph has the nodes,
\* the attributes and the edges of the sequential classification of all
\* entries.
C1_MergeEqualsSequential ==
  (pc = "build" /\ pending = {}) => SameGraph(acc, Sequential)

\* C1 for archives that hold at least one entry: for every chunk size and
\* delivery order the merged graph has the nodes, the attributes and the
\* edges of the sequential classification.
C1_MergeEqualsSequentialNonEmpty ==
  (pc = "build" /\ pending = {} /\ all_entry_count > 0)
    => SameGraph(acc, Sequential)

\* Several partial graphs are merged, and an entry of one group is the
\* target of an edge from an entry of another group.
C1_Witness ==
  /\ pc = "build" /\ pending = {} /\ Len(groups) >= 2
  /\ \E a, b \in 0..(all_entry_count - 1) :
       /\ a \div chunk_size # b \div chunk_size
       /\ <<PathOf(a), PathOf(b)>> \in acc.edges
       /\ acc.attrs[PathOf(b)].mimetype = "text/html"

\* C9: the groups are contiguous and disjoint, only the last one is padded,
\* no placeholder reaches the classifier, no identifier reaches it twice, and
\* when every group is done each identifier of [0, N), 0 included, has
\* reached it exactly once.
C9_ChunksCoverOnce ==
  pc = "build" =>
    /\ \A k \in 1..Len(groups) : \A j \in 1..chunk_size :
         groups[k][j] \in {(k - 1) * chunk_size + j - 1, None}
    /\ \A k \in 1..Len(groups) : \A j \in 1..chunk_size :
         groups[k][j] = None
           => k = Len(groups) /\ (k - 1) * chunk_size + j - 1 >= all_entry_count
    /\ classified[None] = 0
    /\ \A e \in 0..(all_entry_count - 1) :
         /\ classified[e] <= 1
         /\ (\E k \in 1..Len(groups) : k \notin pending /\ Count(groups[k], e) > 0)
              => classified[e] = 1
         /\ pending = {} => classified[e] = 1

\* A build of three entries in groups of two is complete: the second group
\* is padded, and identifier 0 was classified.
C9_Witness ==
  /\ pc = "build" /\ pending = {}
  /\ all_entry_count = 3 /\ chunk_size = 2
  /\ groups[2] = <<2, None>>
  /\ classified[0] = 1

\* C7: __build_zim_graph runs at most once in a session; once a graph is
\* stored every read of a property returns that graph, or the view of it the
\* property stands for, and neither the stored graph nor the number of builds
\* changes again.
C7_BuildOnce ==
  /\ [](builds <= 1)
  /\ []((Truthy(full_graph) /\ pc = "idle")
         => returned = ViewOf(caller, full_graph, exclude_related))
  /\ [][Truthy(full_graph)
          => full_graph' = full_graph /\ builds' = builds]_vars

\* A view is read after the read that built the graph.
C7_Witness ==
  /\ builds = 1 /\ accesses >= 2 /\ pc = "idle"
  /\ caller \in Views \ {"full_graph"}
  /\ Truthy(full_graph)
  /\ returned = ViewOf(caller, full_graph, exclude_related)
  /\ returned.nodes # {}
  /\ all_entry_count >= 2

====
